---- MODULE Spec2Model ----
(***************************************************************************)
(* Model of the document RAG service: the document registry (user_docs),   *)
(* the vector index (document_embeddings), and the three request handlers  *)
(* DocumentService.process_document, ChatService.chat and                  *)
(* MCQService.generate_mcqs, each run step by step, one step per external  *)
(* call (registry, download, embedding model, vector index, generative     *)
(* model) together with the pure code that follows that call.              *)
(*                                                                         *)
(* Similarities are kept in hundredths: 0.3 is 30.                         *)
(***************************************************************************)
EXTENDS Integers, Sequences, FiniteSets, TLC

VARIABLES registry, index, req

vars == <<registry, index, req>>

----------------------------------------------------------------------------
(* The universe of values the requests are drawn from.                     *)

Docs == {"d1", "d2", "d3"}
Users == {"u1", "u2"}
Slots == {1, 2}

NoUrl == ""
\* A message is a sequence of string parts; the empty one is no message.
NoMessage == <<>>
\* An optional value: None, or Some(v).
None == <<>>
Some(v) == <<v>>

PENDING == "pending"
PROCESSING == "processing"
READY == "ready"
FAILED == "failed"

\* Bound: a process_document request starts only while the index holds fewer
\* records than this.
MaxIndexLen == 3

----------------------------------------------------------------------------
(* What the document URLs serve. A text is a sequence of segments: "ws" is *)
(* a run of whitespace, any other segment is a block of content.           *)

WS == "ws"

Urls == {"a.txt", "blank.txt", "gone.txt", "b.pdf", "bad.pdf", "blob"}

\* The HTTP response behind each URL: the status, and the bytes described by
\* what the extractor looks at (the %PDF magic, UTF-8 decodability, whether
\* pypdf can parse it, the text of each page or of the file).
Remote(url) ==
  CASE url = "a.txt"     -> [http |-> 200, magic |-> FALSE, utf8 |-> TRUE,
                             parses |-> FALSE, pages |-> <<>>,
                             text |-> <<"alpha", WS, "beta">>]
    [] url = "blank.txt" -> [http |-> 200, magic |-> FALSE, utf8 |-> TRUE,
                             parses |-> FALSE, pages |-> <<>>,
                             text |-> <<WS>>]
    [] url = "gone.txt"  -> [http |-> 404, magic |-> FALSE, utf8 |-> TRUE,
                             parses |-> FALSE, pages |-> <<>>, text |-> <<>>]
    [] url = "b.pdf"     -> [http |-> 200, magic |-> TRUE, utf8 |-> FALSE,
                             parses |-> TRUE,
                             pages |-> << <<"gamma">>, <<>>, <<"alpha">> >>,
                             text |-> <<>>]
    [] url = "bad.pdf"   -> [http |-> 200, magic |-> TRUE, utf8 |-> FALSE,
                             parses |-> FALSE, pages |-> <<>>, text |-> <<>>]
    [] OTHER             -> [http |-> 200, magic |-> FALSE, utf8 |-> FALSE,
                             parses |-> FALSE, pages |-> <<>>,
                             text |-> <<"gamma">>]

UrlExtension(url) ==
  CASE url \in {"b.pdf", "bad.pdf"} -> ".pdf"
    [] url \in {"a.txt", "blank.txt", "gone.txt"} -> ".txt"
    [] OTHER -> ""

----------------------------------------------------------------------------
(* DocumentProcessor: type detection and text extraction.                  *)

\* An exception value.
Raise(kind, msg) == [raised |-> TRUE, kind |-> kind, msg |-> msg]
Return(v) == [raised |-> FALSE, value |-> v]

detect_document_type(url, content) ==
  IF UrlExtension(url) = ".pdf" THEN "pdf"
  ELSE IF UrlExtension(url) = ".txt" THEN "txt"
  ELSE IF content.magic THEN "pdf"
  ELSE IF content.utf8 THEN "txt"
  ELSE "unknown"

RECURSIVE JoinPages(_)
\* "\n\n".join(text_parts) over the pages that yield text.
JoinPages(pages) ==
  IF pages = <<>> THEN <<>>
  ELSE IF Head(pages) = <<>> THEN JoinPages(Tail(pages))
  ELSE LET rest == JoinPages(Tail(pages))
       IN IF rest = <<>> THEN Head(pages) ELSE Head(pages) \o <<WS>> \o rest

extract_text_from_pdf(content) ==
  IF content.parses
  THEN Return([text |-> JoinPages(content.pages), page_count |-> Some(Len(content.pages))])
  ELSE Raise("TextExtractionError", "Failed to extract text from PDF")

\* UTF-8, then Latin-1, which decodes any bytes.
extract_text_from_txt(content) == content.text

extract_text(content, document_type) ==
  IF document_type = "pdf" THEN extract_text_from_pdf(content)
  ELSE IF document_type = "txt"
  THEN Return([text |-> extract_text_from_txt(content), page_count |-> None])
  ELSE Raise("TextExtractionError", "Unsupported document type: unknown")

\* process_document_from_url after the download returned `content`.
ExtractDownloaded(url, content) ==
  LET doc_type == detect_document_type(url, content)
      ex == extract_text(content, doc_type)
  IN IF ex.raised THEN ex
     ELSE Return([content |-> ex.value.text, document_type |-> doc_type,
                  page_count |-> ex.value.page_count])

----------------------------------------------------------------------------
(* TextChunker.                                                            *)

IsBlank(text) == \A i \in DOMAIN text : text[i] = WS

\* RecursiveCharacterTextSplitter.split_text: the content blocks of the text,
\* in text order, whitespace between them stripped.
SplitText(text) == SelectSeq(text, LAMBDA s : s # WS)

chunk_text_raw(text) == IF text = <<>> \/ IsBlank(text) THEN <<>> ELSE SplitText(text)

----------------------------------------------------------------------------
(* EmbeddingService and the similarity the index computes.                 *)

Messages == {"q1", "q2"}
MCQ_QUERY == "key concepts, facts, and important information"

\* The embedding model: an opaque vector per text.
Embedding(text) == <<"vec", text>>

\* Cosine similarity of a query vector and a stored vector, in hundredths.
CosineSimilarity(qv, cv) ==
  LET q == qv[2]
      c == cv[2]
  IN CASE q = "q1" /\ c = "alpha" -> 30
       [] q = "q1" /\ c = "beta"  -> 29
       [] q = "q1" /\ c = "gamma" -> 90
       [] q = "q2" /\ c = "alpha" -> 29
       [] q = "q2" /\ c = "beta"  -> 10
       [] q = "q2" /\ c = "gamma" -> 95
       [] q = MCQ_QUERY /\ c = "alpha" -> 50
       [] q = MCQ_QUERY /\ c = "beta"  -> 29
       [] q = MCQ_QUERY /\ c = "gamma" -> 30
       [] OTHER -> 0

----------------------------------------------------------------------------
(* SupabaseVectorStore.                                                    *)

Min(a, b) == IF a <= b THEN a ELSE b
Max(a, b) == IF a >= b THEN a ELSE b

\* {**base, **extra}: the keys of extra win.
MergeDict(base, extra) ==
  [k \in DOMAIN base \cup DOMAIN extra |->
     IF k \in DOMAIN extra THEN extra[k] ELSE base[k]]

\* Variant: the last chunk is left out of the batch.
EmbeddingRecords_DropLast(document_id, user_id, chunks, embeddings, metadata) ==
  [i \in 1..(Min(Len(chunks), Len(embeddings)) - 1) |->
     [document_id |-> document_id,
      user_id |-> user_id,
      content |-> chunks[i],
      embedding |-> embeddings[i],
      metadata |-> MergeDict([chunk_index |-> i - 1,
                              document_id |-> document_id,
                              user_id |-> user_id], metadata)]]

\* The records add_embeddings builds from zip(chunks, embeddings).
EmbeddingRecords(document_id, user_id, chunks, embeddings, metadata) ==
  [i \in 1..Min(Len(chunks), Len(embeddings)) |->
     [document_id |-> document_id,
      user_id |-> user_id,
      content |-> chunks[i],
      embedding |-> embeddings[i],
      metadata |-> MergeDict([chunk_index |-> i - 1,
                              document_id |-> document_id,
                              user_id |-> user_id], metadata)]]

\* Variant: the lengths are not compared, so zip pairs what it can.
add_embeddings_NoLengthCheck(document_id, user_id, chunks, embeddings, metadata) ==
  Return(EmbeddingRecords(document_id, user_id, chunks, embeddings, metadata))

\* add_embeddings up to the insert call: the length check, then the records.
add_embeddings(document_id, user_id, chunks, embeddings, metadata) ==
  IF Len(chunks) # Len(embeddings)
  THEN Raise("ValueError", "Chunks and embeddings must have same length")
  ELSE Return(EmbeddingRecords(document_id, user_id, chunks, embeddings, metadata))

RemoveAt(s, i) == SubSeq(s, 1, i - 1) \o SubSeq(s, i + 1, Len(s))

RECURSIVE OrderBySimilarityDesc(_)
\* ORDER BY similarity DESC; rows of equal similarity keep their insertion order.
OrderBySimilarityDesc(rows) ==
  IF rows = <<>> THEN <<>>
  ELSE LET i == CHOOSE i \in DOMAIN rows :
                  \A j \in DOMAIN rows :
                     \/ rows[i].similarity > rows[j].similarity
                     \/ rows[i].similarity = rows[j].similarity /\ i <= j
       IN <<rows[i]>> \o OrderBySimilarityDesc(RemoveAt(rows, i))

\* The database function match_document_embeddings: the rows of one document,
\* nearest first, at most match_count of them.
match_document_embeddings(idx, query_embedding, filter_document_id, match_count) ==
  LET scoped == SelectSeq(idx, LAMBDA rec : rec.document_id = filter_document_id)
      rows == [i \in DOMAIN scoped |->
                 [content |-> scoped[i].content,
                  metadata |-> scoped[i].metadata,
                  similarity |-> CosineSimilarity(query_embedding, scoped[i].embedding)]]
      ranked == OrderBySimilarityDesc(rows)
  IN SubSeq(ranked, 1, Min(match_count, Len(ranked)))

\* Variant: the document filter is not passed, so every document's rows match.
similarity_search_Unscoped(idx, query_embedding, document_id, k) ==
  LET rows == [i \in DOMAIN idx |->
                 [content |-> idx[i].content,
                  metadata |-> idx[i].metadata,
                  similarity |-> CosineSimilarity(query_embedding, idx[i].embedding)]]
      ranked == OrderBySimilarityDesc(rows)
  IN SubSeq(ranked, 1, Min(k, Len(ranked)))

\* similarity_search: the RPC call and the rows turned into SearchResults.
similarity_search(idx, query_embedding, document_id, k) ==
  LET data == match_document_embeddings(idx, query_embedding, document_id, k)
  IN [i \in DOMAIN data |->
        [content |-> data[i].content,
         metadata |-> data[i].metadata,
         similarity |-> data[i].similarity]]

\* Variant: only the document's first record is deleted.
delete_document_embeddings_FirstOnly(idx, document_id) ==
  LET hits == {i \in DOMAIN idx : idx[i].document_id = document_id}
  IN IF hits = {} THEN idx
     ELSE RemoveAt(idx, CHOOSE i \in hits : \A j \in hits : i <= j)

\* delete().eq("document_id", str(document_id)): what is left in the table.
delete_document_embeddings(idx, document_id) ==
  SelectSeq(idx, LAMBDA rec : rec.document_id # document_id)

get_document_embedding_count(idx, document_id) ==
  Len(SelectSeq(idx, LAMBDA rec : rec.document_id = document_id))

----------------------------------------------------------------------------
(* RAGChain.                                                               *)

NO_CONTEXT_RESPONSE == "I don't have enough information in the document to answer this question."
RAG_MIN_SIMILARITY_THRESHOLD == 30
retrieval_k == 4

RECURSIVE RAGRelevantResults_Strict(_)
\* Variant: the threshold is exclusive.
RAGRelevantResults_Strict(results) ==
  IF results = <<>> THEN <<>>
  ELSE IF Head(results).similarity > RAG_MIN_SIMILARITY_THRESHOLD
  THEN <<Head(results)>> \o RAGRelevantResults_Strict(Tail(results))
  ELSE RAGRelevantResults_Strict(Tail(results))

RECURSIVE RAGRelevantResults(_)
\* [r for r in results if r.similarity >= self.MIN_SIMILARITY_THRESHOLD]
RAGRelevantResults(results) ==
  IF results = <<>> THEN <<>>
  ELSE IF Head(results).similarity >= RAG_MIN_SIMILARITY_THRESHOLD
  THEN <<Head(results)>> \o RAGRelevantResults(Tail(results))
  ELSE RAGRelevantResults(Tail(results))

\* Variant: enumerate without its start argument numbers the blocks from 0.
RAGFormatContext_ZeroBased(search_results) ==
  [i \in DOMAIN search_results |->
     [label |-> "Source", number |-> i - 1, content |-> search_results[i].content]]

\* The context string: one "[Source i]" block per result, i from 1.
RAGFormatContext(search_results) ==
  [i \in DOMAIN search_results |->
     [label |-> "Source", number |-> i, content |-> search_results[i].content]]

RAGFormatSources(search_results) ==
  [i \in DOMAIN search_results |->
     [content |-> search_results[i].content,
      metadata |-> search_results[i].metadata]]

\* Variant: the no-context branch is never taken.
RAGHasContext_Always(search_results) == TRUE

\* RAGChain.invoke after retrieve: the no-context return, or the model call.
RAGHasContext(search_results) == search_results # <<>>

----------------------------------------------------------------------------
(* MCQChain.                                                               *)

MCQ_MIN_SIMILARITY_THRESHOLD == 30
RETRIEVAL_K == 6

\* Variant: the count does not grow with the number of questions.
MCQRetrievalCount_Fixed(num_questions) == RETRIEVAL_K

\* k = max(self.RETRIEVAL_K, num_questions * 2)
MCQRetrievalCount(num_questions) == Max(RETRIEVAL_K, num_questions * 2)

RECURSIVE MCQRelevantResults(_)
MCQRelevantResults(results) ==
  IF results = <<>> THEN <<>>
  ELSE IF Head(results).similarity >= MCQ_MIN_SIMILARITY_THRESHOLD
  THEN <<Head(results)>> \o MCQRelevantResults(Tail(results))
  ELSE MCQRelevantResults(Tail(results))

MCQFormatContext(search_results) ==
  [i \in DOMAIN search_results |->
     [label |-> "Section", number |-> i, content |-> search_results[i].content]]

MCQHasContext(search_results) == search_results # <<>>

\* The raw text the generative model may return to a quiz prompt, as tokens:
\* prose, braces, and the text between a pair of braces.
MCQOutputs ==
  { <<"prose">>,
    <<"prose", "{", "body_mixed", "}", "prose">>,
    <<"{", "body_all_bad", "}">>,
    <<"{", "body_blank_option", "}">>,
    <<"{", "body_empty_text", "}">>,
    <<"{", "body_str_index", "}">>,
    <<"{", "body_no_key", "}">>,
    <<"{", "prose", "}">>,
    <<"{", "body_good", "}", "prose", "{", "body_no_key", "}">> }

GoodQuestion ==
  [question |-> "Q", options |-> <<"A", "B", "C", "D">>,
   correct_answer_index |-> [type |-> "int", v |-> 1], explanation |-> "E"]

GoodQuestion2 ==
  [question |-> "Q2", options |-> <<"A", "B", "C", "D">>,
   correct_answer_index |-> [type |-> "int", v |-> 3], explanation |-> "E2"]

\* Candidates the three explicit checks of the parser reject.
ThreeOptions == [GoodQuestion EXCEPT !.options = <<"A", "B", "C">>]
IndexFour == [GoodQuestion EXCEPT !.correct_answer_index = [type |-> "int", v |-> 4]]
NoExplanation ==
  [question |-> "Q", options |-> <<"A", "B", "C", "D">>,
   correct_answer_index |-> [type |-> "int", v |-> 1]]

\* Candidates that pass the three explicit checks, or fail in evaluating them.
BlankOption == [GoodQuestion EXCEPT !.options = <<"A", " ", "C", "D">>]
EmptyQuestion == [GoodQuestion EXCEPT !.question = ""]
StrIndex == [GoodQuestion EXCEPT !.correct_answer_index = [type |-> "str", v |-> 1]]

\* What json.loads makes of an object body.
JsonBody(body) ==
  CASE body = "body_mixed" ->
         [questions |-> <<GoodQuestion, ThreeOptions, IndexFour, NoExplanation,
                          GoodQuestion2>>]
    [] body = "body_all_bad" -> [questions |-> <<ThreeOptions, IndexFour, NoExplanation>>]
    [] body = "body_blank_option" -> [questions |-> <<GoodQuestion, BlankOption>>]
    [] body = "body_empty_text" -> [questions |-> <<GoodQuestion, EmptyQuestion>>]
    [] body = "body_str_index" -> [questions |-> <<GoodQuestion, StrIndex>>]
    [] body = "body_good" -> [questions |-> <<GoodQuestion, GoodQuestion2>>]
    [] OTHER -> [note |-> "no questions here"]

IsJsonBody(tok) ==
  tok \in {"body_mixed", "body_all_bad", "body_blank_option", "body_empty_text",
           "body_str_index", "body_good", "body_no_key"}

\* re.search(r'\{[\s\S]*\}', output): from the first "{" to the last "}".
JsonMatch(output) ==
  LET opens == {i \in DOMAIN output : output[i] = "{"}
      first == CHOOSE i \in opens : \A j \in opens : i <= j
      closes == {i \in DOMAIN output : output[i] = "}" /\ i > first}
      last == CHOOSE i \in closes : \A j \in closes : j <= i
  IN IF opens = {} \/ closes = {} THEN None
     ELSE Some(SubSeq(output, first, last))

\* json.loads of the matched span: one object and nothing after it.
JsonLoads(span) ==
  IF Len(span) = 3 /\ IsJsonBody(span[2]) THEN Return(JsonBody(span[2]))
  ELSE IF Len(span) = 2 THEN Return([note |-> "empty object"])
  ELSE Raise("JSONDecodeError", "Failed to parse LLM JSON output")

REQUIRED_FIELDS == {"question", "options", "correct_answer_index", "explanation"}

IsBlankString(str) == str \in {"", " "}

\* The MCQQuestion model's own validation of a constructed question.
MCQQuestionValid(q) ==
  /\ q.question # ""
  /\ Len(q.options) = 4
  /\ \A i \in DOMAIN q.options : ~IsBlankString(q.options[i])
  /\ q.correct_answer_index.type = "int"
  /\ q.correct_answer_index.v \in 0..3
  /\ q.explanation # ""

RECURSIVE ParseQuestions_AbortOnOptions(_)
\* Variant: a candidate without exactly four options fails the batch.
ParseQuestions_AbortOnOptions(candidates) ==
  IF candidates = <<>> THEN Return(<<>>)
  ELSE LET q == Head(candidates)
           rest == ParseQuestions_AbortOnOptions(Tail(candidates))
       IN IF ~(REQUIRED_FIELDS \subseteq DOMAIN q) THEN rest
          ELSE IF Len(q.options) # 4
          THEN Raise("MCQGenerationError", "Error parsing MCQ output")
          ELSE IF q.correct_answer_index.type # "int"
          THEN Raise("MCQGenerationError", "Error parsing MCQ output")
          ELSE IF ~(q.correct_answer_index.v \in 0..3) THEN rest
          ELSE IF ~MCQQuestionValid(q)
          THEN Raise("MCQGenerationError", "Error parsing MCQ output")
          ELSE IF rest.raised THEN rest
          ELSE Return(<<q>> \o rest.value)

RECURSIVE ParseQuestions(_)
\* The loop over data["questions"]: skip, append, or raise.
ParseQuestions(candidates) ==
  IF candidates = <<>> THEN Return(<<>>)
  ELSE LET q == Head(candidates)
           rest == ParseQuestions(Tail(candidates))
       IN IF ~(REQUIRED_FIELDS \subseteq DOMAIN q) THEN rest
          ELSE IF Len(q.options) # 4 THEN rest
          ELSE IF q.correct_answer_index.type # "int"
          THEN Raise("MCQGenerationError", "Error parsing MCQ output")
          ELSE IF ~(q.correct_answer_index.v \in 0..3) THEN rest
          ELSE IF ~MCQQuestionValid(q)
          THEN Raise("MCQGenerationError", "Error parsing MCQ output")
          ELSE IF rest.raised THEN rest
          ELSE Return(<<q>> \o rest.value)

\* Variant: an output without a JSON object counts as no questions.
parse_llm_output_Lenient(output) ==
  LET m == JsonMatch(output)
  IN IF m = None THEN Return(<<>>)
     ELSE LET data == JsonLoads(m[1])
          IN IF data.raised THEN Return(<<>>)
             ELSE IF "questions" \notin DOMAIN data.value THEN Return(<<>>)
             ELSE ParseQuestions(data.value.questions)

\* MCQChain._parse_llm_output
parse_llm_output(output) ==
  LET m == JsonMatch(output)
  IN IF m = None
     THEN Raise("MCQGenerationError", "Error parsing MCQ output: No JSON found in LLM output")
     ELSE LET data == JsonLoads(m[1])
          IN IF data.raised
             THEN Raise("MCQGenerationError", "Failed to parse LLM JSON output")
             ELSE IF "questions" \notin DOMAIN data.value
             THEN Raise("MCQGenerationError",
                        "Error parsing MCQ output: Missing 'questions' key in LLM output")
             ELSE ParseQuestions(data.value.questions)

----------------------------------------------------------------------------
(* Requests. Each slot holds one request: its arguments, where it stands   *)
(* (pc), its local variables, the log of the external calls it has made,   *)
(* and how it ended.                                                       *)

NumQuestions == {1, 4}
Difficulties == {"easy", "hard"}
Answers == {"grounded answer", NO_CONTEXT_RESPONSE}

NoError == [raised |-> FALSE, kind |-> "", msg |-> ""]
NoOutcome == [kind |-> "none", error |-> "", msg |-> NoMessage, value |-> <<>>]

IdleRequest ==
  [kind |-> "none", user_id |-> "", document_id |-> "", message |-> "",
   num_questions |-> 0, difficulty |-> "",
   settings |-> <<>>, text |-> <<>>,
   pc |-> "idle", log |-> <<>>, count0 |-> 0, k |-> 0,
   document |-> <<>>, extracted |-> <<>>, chunks |-> <<>>, embeddings |-> <<>>,
   records |-> <<>>, query_embedding |-> <<>>, raw |-> <<>>,
   retrieved |-> FALSE, search_results |-> <<>>, context |-> <<>>,
   chain |-> <<>>, output |-> <<>>, error |-> NoError,
   outcome |-> NoOutcome]

Event(op, arg) == [op |-> op, arg |-> arg]

Logged(rq, op, arg) == [rq EXCEPT !.log = Append(@, Event(op, arg))]

Returned(rq, value) ==
  [rq EXCEPT !.pc = "done",
             !.outcome = [kind |-> "return", error |-> "", msg |-> NoMessage, value |-> value]]

Raised(rq, error, msg) ==
  [rq EXCEPT !.pc = "done",
             !.outcome = [kind |-> "raise", error |-> error, msg |-> msg, value |-> <<>>]]

InFlight(r) == req[r].pc \notin {"idle", "done"}

\* The registry's select by id (and, for get_document, by owner).
SelectById(document_id) ==
  IF document_id \in DOMAIN registry THEN <<registry[document_id]>> ELSE <<>>

SelectByIdAndUser(document_id, user_id) ==
  SelectSeq(SelectById(document_id), LAMBDA row : row.user_id = user_id)

\* Variant: the update is not restricted to the document's row.
UpdateStatus_AllRows(reg, document_id, status, error_message) ==
  [d \in DOMAIN reg |->
     IF error_message # NoMessage
     THEN [reg[d] EXCEPT !.status = status, !.error_message = error_message]
     ELSE [reg[d] EXCEPT !.status = status]]

\* The registry's update ... eq("id", document_id): no row, no change.
UpdateStatus(reg, document_id, status, error_message) ==
  IF document_id \notin DOMAIN reg THEN reg
  ELSE [reg EXCEPT ![document_id] =
          IF error_message # NoMessage
          THEN [@ EXCEPT !.status = status, !.error_message = error_message]
          ELSE [@ EXCEPT !.status = status]]

----------------------------------------------------------------------------
(* A request arrives. One request is in flight at a time.                  *)

NewRequest(kind, user_id, document_id) ==
  [IdleRequest EXCEPT !.kind = kind, !.user_id = user_id,
                      !.document_id = document_id,
                      !.count0 = get_document_embedding_count(index, document_id)]

CanStart(r) == r = 1 /\ \A s \in Slots : ~InFlight(s)

StartProcess(r) ==
  /\ CanStart(r)
  /\ Len(index) < MaxIndexLen
  /\ \E u \in Users, d \in Docs :
       req' = [req EXCEPT ![r] =
                 [NewRequest("process", u, d) EXCEPT !.pc = "get_document"]]
  /\ UNCHANGED <<registry, index>>

StartChat(r) ==
  /\ CanStart(r)
  /\ \E u \in Users, d \in Docs, m \in Messages :
       req' = [req EXCEPT ![r] =
                 [NewRequest("chat", u, d) EXCEPT !.pc = "validate", !.message = m]]
  /\ UNCHANGED <<registry, index>>

StartMCQ(r) ==
  /\ CanStart(r)
  /\ \E u \in Users, d \in Docs, n \in NumQuestions, diff \in Difficulties :
       req' = [req EXCEPT ![r] =
                 [NewRequest("mcq", u, d) EXCEPT !.pc = "validate",
                                                  !.num_questions = n,
                                                  !.difficulty = diff]]
  /\ UNCHANGED <<registry, index>>

----------------------------------------------------------------------------
(* DocumentService.process_document.                                       *)

\* str(e)
Str(e) == <<e.msg>>

\* Variant: the lookup does not filter on the owner.
get_document_AnyOwner(document_id, user_id) ==
  LET data == SelectById(document_id)
  IN IF data = <<>>
     THEN Raise("DocumentNotFoundError", "Document not found for user")
     ELSE Return(data[1])

get_document(document_id, user_id) ==
  LET data == SelectByIdAndUser(document_id, user_id)
  IN IF data = <<>>
     THEN Raise("DocumentNotFoundError", "Document not found for user")
     ELSE Return(data[1])

\* document = self.get_document(document_id, user_id)
ProcGetDocument(r) ==
  /\ req[r].kind = "process" /\ req[r].pc = "get_document"
  /\ LET rq == Logged(req[r], "registry.select", req[r].document_id)
         got == get_document(rq.document_id, rq.user_id)
     IN req' = [req EXCEPT ![r] =
                  IF got.raised THEN Raised(rq, got.kind, Str(got))
                  ELSE [rq EXCEPT !.document = got.value, !.pc = "set_processing"]]
  /\ UNCHANGED <<registry, index>>

\* Variant: the processing status is never written.
ProcSetProcessing_NoWrite(r) ==
  /\ req[r].kind = "process" /\ req[r].pc = "set_processing"
  /\ req' = [req EXCEPT ![r] =
               IF req[r].document.file_url = NoUrl
               THEN [req[r] EXCEPT !.pc = "fail_unexpected",
                                   !.error = Raise("DocumentProcessingError",
                                                   "Document has no file URL")]
               ELSE [req[r] EXCEPT !.pc = "download"]]
  /\ UNCHANGED <<registry, index>>

\* update_document_status(PROCESSING), then the file_url check.
ProcSetProcessing(r) ==
  /\ req[r].kind = "process" /\ req[r].pc = "set_processing"
  /\ registry' = UpdateStatus(registry, req[r].document_id, PROCESSING, NoMessage)
  /\ LET rq == Logged(req[r], "set_status", PROCESSING)
     IN req' = [req EXCEPT ![r] =
                  IF rq.document.file_url = NoUrl
                  THEN [rq EXCEPT !.pc = "fail_unexpected",
                                  !.error = Raise("DocumentProcessingError",
                                                  "Document has no file URL")]
                  ELSE [rq EXCEPT !.pc = "download"]]
  /\ UNCHANGED index

\* Variant: the empty-document branch is never taken.
NoChunks_Never(chunks) == FALSE

\* if not chunks
NoChunks(chunks) == chunks = <<>>

\* Variant: an extraction error is handled as an unexpected error.
AfterDownload_Unexpected(rq, content) ==
  LET ex == ExtractDownloaded(rq.document.file_url, content)
  IN IF ex.raised THEN [rq EXCEPT !.pc = "fail_unexpected", !.error = ex]
     ELSE LET chunks == chunk_text_raw(ex.value.content)
          IN [rq EXCEPT !.extracted = ex.value, !.chunks = chunks,
                        !.pc = IF chunks = <<>> THEN "set_ready" ELSE "embed"]

\* After a successful download: extract, chunk, and branch on `if not chunks`.
AfterDownload(rq, content) ==
  LET ex == ExtractDownloaded(rq.document.file_url, content)
  IN IF ex.raised THEN [rq EXCEPT !.pc = "fail_recover", !.error = ex]
     ELSE LET chunks == chunk_text_raw(ex.value.content)
          IN [rq EXCEPT !.extracted = ex.value, !.chunks = chunks,
                        !.pc = IF NoChunks(chunks) THEN "set_ready" ELSE "embed"]

\* process_document_from_url: the download, then AfterDownload.
ProcDownload(r) ==
  /\ req[r].kind = "process" /\ req[r].pc = "download"
  /\ LET rq == Logged(req[r], "download", req[r].document.file_url)
         resp == Remote(rq.document.file_url)
     IN \/ req' = [req EXCEPT ![r] =
                     [rq EXCEPT !.pc = "fail_recover",
                                !.error = Raise("DocumentDownloadError",
                                                "Failed to download document: request error")]]
        \/ req' = [req EXCEPT ![r] =
                     IF resp.http # 200
                     THEN [rq EXCEPT !.pc = "fail_recover",
                                     !.error = Raise("DocumentDownloadError",
                                                     "Failed to download document: HTTP status")]
                     ELSE AfterDownload(rq, resp)]
  /\ UNCHANGED <<registry, index>>

\* The vectors embed_documents may return for `texts`: one per text, or, from a
\* misbehaving service, one too few.
EmbedDocumentsResults(texts) ==
  { [i \in 1..Len(texts) |-> Embedding(texts[i])],
    [i \in 1..(Len(texts) - 1) |-> Embedding(texts[i])] }

\* After generate_embeddings returned: add_embeddings up to its insert call.
AfterEmbeddings(rq, embeddings) ==
  LET metadata == [document_type |-> rq.extracted.document_type,
                   page_count |-> rq.extracted.page_count]
      built == add_embeddings(rq.document_id, rq.user_id, rq.chunks, embeddings, metadata)
  IN IF built.raised
     THEN [rq EXCEPT !.embeddings = embeddings, !.pc = "fail_unexpected", !.error = built]
     ELSE [rq EXCEPT !.embeddings = embeddings, !.records = built.value, !.pc = "insert"]

\* embeddings = self._embedding_service.generate_embeddings(chunks): no texts,
\* no call; else the embed_documents call, which may fail.
ProcEmbed(r) ==
  /\ req[r].kind = "process" /\ req[r].pc = "embed"
  /\ IF req[r].chunks = <<>>
     THEN req' = [req EXCEPT ![r] = AfterEmbeddings(req[r], <<>>)]
     ELSE LET rq == Logged(req[r], "embed_documents", req[r].chunks)
          IN \/ req' = [req EXCEPT ![r] =
                          [rq EXCEPT !.pc = "fail_unexpected",
                                     !.error = Raise("Exception", "embedding call failed")]]
             \/ \E embeddings \in EmbedDocumentsResults(rq.chunks) :
                  req' = [req EXCEPT ![r] = AfterEmbeddings(rq, embeddings)]
  /\ UNCHANGED <<registry, index>>

\* self._client.table(TABLE_NAME).insert(records).execute()
ProcInsert(r) ==
  /\ req[r].kind = "process" /\ req[r].pc = "insert"
  /\ LET rq == Logged(req[r], "insert", req[r].records)
     IN \/ /\ req' = [req EXCEPT ![r] =
                        [rq EXCEPT !.pc = "fail_unexpected",
                                   !.error = Raise("Exception", "insert call failed")]]
           /\ UNCHANGED index
        \/ /\ index' = index \o rq.records
           /\ req' = [req EXCEPT ![r] = [rq EXCEPT !.pc = "set_ready"]]
  /\ UNCHANGED registry

ProcessingResult(document_id, status, chunks_created, error_message) ==
  [document_id |-> document_id, status |-> status,
   chunks_created |-> chunks_created, error_message |-> error_message]

\* update_document_status(READY) and the READY result, with or without chunks.
ProcSetReady(r) ==
  /\ req[r].kind = "process" /\ req[r].pc = "set_ready"
  /\ registry' = UpdateStatus(registry, req[r].document_id, READY, NoMessage)
  /\ LET rq == Logged(req[r], "set_status", READY)
     IN req' = [req EXCEPT ![r] =
                  Returned(rq, ProcessingResult(rq.document_id, READY,
                                                Len(rq.chunks), NoMessage))]
  /\ UNCHANGED index

\* except (DocumentDownloadError, TextExtractionError) as e
ProcFailRecover(r) ==
  /\ req[r].kind = "process" /\ req[r].pc = "fail_recover"
  /\ registry' = UpdateStatus(registry, req[r].document_id, FAILED, Str(req[r].error))
  /\ LET rq == Logged(req[r], "set_status", FAILED)
     IN req' = [req EXCEPT ![r] =
                  Returned(rq, ProcessingResult(rq.document_id, FAILED, 0,
                                                Str(rq.error)))]
  /\ UNCHANGED index

\* Variant: the unexpected error is swallowed into a structured result.
ProcFailUnexpected_Swallowed(r) ==
  /\ req[r].kind = "process" /\ req[r].pc = "fail_unexpected"
  /\ registry' = UpdateStatus(registry, req[r].document_id, FAILED,
                              <<"Unexpected error: ">> \o Str(req[r].error))
  /\ LET rq == Logged(req[r], "set_status", FAILED)
     IN req' = [req EXCEPT ![r] =
                  Returned(rq, [document_id |-> rq.document_id, status |-> FAILED,
                                chunks_created |-> 0,
                                error_message |-> Str(rq.error)])]
  /\ UNCHANGED index

\* except Exception as e
ProcFailUnexpected(r) ==
  /\ req[r].kind = "process" /\ req[r].pc = "fail_unexpected"
  /\ registry' = UpdateStatus(registry, req[r].document_id, FAILED,
                              <<"Unexpected error: ">> \o Str(req[r].error))
  /\ LET rq == Logged(req[r], "set_status", FAILED)
     IN req' = [req EXCEPT ![r] =
                  Raised(rq, "DocumentProcessingError",
                         <<"Failed to process document: ">> \o Str(rq.error))]
  /\ UNCHANGED index

----------------------------------------------------------------------------
(* ChatService.chat and RAGChain.invoke.                                   *)

\* Variant: a document that is not ready is refused.
ChatValidateDocumentOwnership_ReadyOnly(document_id, user_id) ==
  LET data == SelectById(document_id)
  IN IF data = <<>> THEN Raise("DocumentNotFoundError", "Document not found")
     ELSE IF data[1].user_id # user_id
     THEN Raise("AuthorizationError", "User is not authorized to access document")
     ELSE IF data[1].status # READY
     THEN Raise("DocumentNotReadyError", "Document is not ready")
     ELSE Return(data[1])

\* Variant: the lookup filters on the owner as get_document does, so another
\* user's document looks missing.
ChatValidateDocumentOwnership_OwnerFiltered(document_id, user_id) ==
  LET data == SelectByIdAndUser(document_id, user_id)
  IN IF data = <<>> THEN Raise("DocumentNotFoundError", "Document not found")
     ELSE Return(data[1])

\* ChatService.validate_document_ownership
ChatValidateDocumentOwnership(document_id, user_id) ==
  LET data == SelectById(document_id)
  IN IF data = <<>> THEN Raise("DocumentNotFoundError", "Document not found")
     ELSE IF data[1].user_id # user_id
     THEN Raise("AuthorizationError", "User is not authorized to access document")
     ELSE Return(data[1])

\* Variant: the query is embedded before the ownership check.
ChatValidate_AfterRetrieval(r) ==
  /\ req[r].kind = "chat" /\ req[r].pc = "validate"
  /\ LET rq == Logged(Logged(req[r], "embed_query", req[r].message),
                      "registry.select", req[r].document_id)
         v == ChatValidateDocumentOwnership(rq.document_id, rq.user_id)
     IN req' = [req EXCEPT ![r] =
                  IF v.raised THEN Raised(rq, v.kind, Str(v))
                  ELSE [rq EXCEPT !.document = v.value, !.pc = "embed_query"]]
  /\ UNCHANGED <<registry, index>>

\* self.validate_document_ownership(document_id, user_id)
ChatValidate(r) ==
  /\ req[r].kind = "chat" /\ req[r].pc = "validate"
  /\ LET rq == Logged(req[r], "registry.select", req[r].document_id)
         v == ChatValidateDocumentOwnership(rq.document_id, rq.user_id)
     IN req' = [req EXCEPT ![r] =
                  IF v.raised THEN Raised(rq, v.kind, Str(v))
                  ELSE [rq EXCEPT !.document = v.value, !.pc = "embed_query"]]
  /\ UNCHANGED <<registry, index>>

\* RAGChain.retrieve: generate_embedding(query)
RAGEmbedQuery(r) ==
  /\ req[r].kind = "chat" /\ req[r].pc = "embed_query"
  /\ LET rq == Logged(req[r], "embed_query", req[r].message)
     IN \/ req' = [req EXCEPT ![r] = Raised(rq, "Exception", <<"embedding call failed">>)]
        \/ req' = [req EXCEPT ![r] =
                     [rq EXCEPT !.query_embedding = Embedding(rq.message),
                                !.pc = "search"]]
  /\ UNCHANGED <<registry, index>>

RAGResponse(answer, sources, has_context) ==
  [answer |-> answer, sources |-> sources, has_context |-> has_context]

\* ChatService.chat's ChatResponse built from the chain's RAGResponse.
ChatResponse(rag_response, document_id) ==
  [answer |-> rag_response.answer,
   sources |-> [i \in DOMAIN rag_response.sources |->
                  [content |-> rag_response.sources[i].content,
                   metadata |-> rag_response.sources[i].metadata]],
   document_id |-> document_id,
   has_context |-> rag_response.has_context]

\* RAGChain.retrieve after the search returned `raw`, and invoke's branch on it.
RAGAfterSearch(rq, raw) ==
  LET search_results == RAGRelevantResults(raw)
      found == [rq EXCEPT !.raw = raw, !.search_results = search_results,
                          !.retrieved = TRUE]
  IN IF ~RAGHasContext(search_results)
     THEN LET resp == RAGResponse(NO_CONTEXT_RESPONSE, <<>>, FALSE)
          IN Returned([found EXCEPT !.chain = resp],
                      ChatResponse(resp, rq.document_id))
     ELSE [found EXCEPT !.context = RAGFormatContext(search_results), !.pc = "llm"]

\* RAGChain.retrieve: similarity_search(query_embedding, document_id, k)
RAGSearch(r) ==
  /\ req[r].kind = "chat" /\ req[r].pc = "search"
  /\ LET rq == Logged(req[r], "search", req[r].document_id)
     IN \/ req' = [req EXCEPT ![r] = Raised(rq, "Exception", <<"search call failed">>)]
        \/ req' = [req EXCEPT ![r] =
                     RAGAfterSearch(rq, similarity_search(index, rq.query_embedding,
                                                          rq.document_id, retrieval_k))]
  /\ UNCHANGED <<registry, index>>

\* Variant: a failed model call is tried once more.
RAGGenerate_RetryOnce(r) ==
  /\ req[r].kind = "chat" /\ req[r].pc = "llm"
  /\ LET rq == Logged(req[r], "llm", req[r].context)
     IN \/ req' = [req EXCEPT ![r] =
                     IF Len(SelectSeq(rq.log, LAMBDA e : e.op = "llm")) < 2 THEN rq
                     ELSE Raised(rq, "Exception", <<"model call failed">>)]
        \/ \E answer \in Answers :
             LET resp == RAGResponse(answer, RAGFormatSources(rq.search_results), TRUE)
             IN req' = [req EXCEPT ![r] =
                          Returned([rq EXCEPT !.chain = resp],
                                   ChatResponse(resp, rq.document_id))]
  /\ UNCHANGED <<registry, index>>

\* chain.invoke({"context": context, "question": question})
RAGGenerate(r) ==
  /\ req[r].kind = "chat" /\ req[r].pc = "llm"
  /\ LET rq == Logged(req[r], "llm", req[r].context)
     IN \/ req' = [req EXCEPT ![r] = Raised(rq, "Exception", <<"model call failed">>)]
        \/ \E answer \in Answers :
             LET resp == RAGResponse(answer, RAGFormatSources(rq.search_results), TRUE)
             IN req' = [req EXCEPT ![r] =
                          Returned([rq EXCEPT !.chain = resp],
                                   ChatResponse(resp, rq.document_id))]
  /\ UNCHANGED <<registry, index>>

----------------------------------------------------------------------------
(* MCQService.generate_mcqs and MCQChain.invoke.                           *)

\* MCQService.validate_document_ownership
MCQValidateDocumentOwnership(document_id, user_id) ==
  LET data == SelectById(document_id)
  IN IF data = <<>> THEN Raise("DocumentNotFoundError", "Document not found")
     ELSE IF data[1].user_id # user_id
     THEN Raise("AuthorizationError", "User is not authorized to access document")
     ELSE Return(data[1])

MCQValidate(r) ==
  /\ req[r].kind = "mcq" /\ req[r].pc = "validate"
  /\ LET rq == Logged(req[r], "registry.select", req[r].document_id)
         v == MCQValidateDocumentOwnership(rq.document_id, rq.user_id)
     IN req' = [req EXCEPT ![r] =
                  IF v.raised THEN Raised(rq, v.kind, Str(v))
                  ELSE [rq EXCEPT !.pc = "embed_query"]]
  /\ UNCHANGED <<registry, index>>

\* MCQChain.retrieve: generate_embedding(query)
MCQEmbedQuery(r) ==
  /\ req[r].kind = "mcq" /\ req[r].pc = "embed_query"
  /\ LET rq == Logged(req[r], "embed_query", MCQ_QUERY)
     IN \/ req' = [req EXCEPT ![r] = Raised(rq, "Exception", <<"embedding call failed">>)]
        \/ req' = [req EXCEPT ![r] =
                     [rq EXCEPT !.query_embedding = Embedding(MCQ_QUERY),
                                !.pc = "search"]]
  /\ UNCHANGED <<registry, index>>

MCQGenerationResult(questions, has_context) ==
  [questions |-> questions, has_context |-> has_context]

\* MCQService.generate_mcqs's MCQResponse built from the chain's result.
MCQResponse(result, document_id, difficulty) ==
  [questions |-> result.questions, document_id |-> document_id,
   difficulty |-> difficulty, generated_count |-> Len(result.questions)]

\* MCQChain.retrieve after the search returned `raw`, and invoke's branch on it.
MCQAfterSearch(rq, raw) ==
  LET search_results == MCQRelevantResults(raw)
      found == [rq EXCEPT !.raw = raw, !.search_results = search_results,
                          !.retrieved = TRUE]
  IN IF ~MCQHasContext(search_results)
     THEN LET result == MCQGenerationResult(<<>>, FALSE)
          IN Returned([found EXCEPT !.chain = result],
                      MCQResponse(result, rq.document_id, rq.difficulty))
     ELSE [found EXCEPT !.context = MCQFormatContext(search_results), !.pc = "llm"]

\* MCQChain.retrieve: similarity_search(query_embedding, document_id, k)
MCQSearch(r) ==
  /\ req[r].kind = "mcq" /\ req[r].pc = "search"
  /\ LET rq == [Logged(req[r], "search", req[r].document_id) EXCEPT
                  !.k = MCQRetrievalCount(req[r].num_questions)]
     IN \/ req' = [req EXCEPT ![r] = Raised(rq, "Exception", <<"search call failed">>)]
        \/ req' = [req EXCEPT ![r] =
                     MCQAfterSearch(rq, similarity_search(index, rq.query_embedding,
                                        rq.document_id, rq.k))]
  /\ UNCHANGED <<registry, index>>

\* After the model returned `output`: parse it and build the result.
MCQAfterGenerate(rq, output) ==
  LET parsed == parse_llm_output(output)
      got == [rq EXCEPT !.output = output]
  IN IF parsed.raised THEN Raised(got, parsed.kind, Str(parsed))
     ELSE LET result == MCQGenerationResult(parsed.value, TRUE)
          IN Returned([got EXCEPT !.chain = result],
                      MCQResponse(result, rq.document_id, rq.difficulty))

\* chain.invoke({...}) inside try/except, then _parse_llm_output
MCQGenerate(r) ==
  /\ req[r].kind = "mcq" /\ req[r].pc = "llm"
  /\ LET rq == Logged(req[r], "llm", req[r].context)
     IN \/ req' = [req EXCEPT ![r] =
                     Raised(rq, "MCQGenerationError", <<"LLM invocation failed">>)]
        \/ \E output \in MCQOutputs :
             req' = [req EXCEPT ![r] = MCQAfterGenerate(rq, output)]
  /\ UNCHANGED <<registry, index>>

----------------------------------------------------------------------------
(* The specification.                                                      *)

Row(user_id, file_url) ==
  [user_id |-> user_id, status |-> PENDING, error_message |-> NoMessage,
   file_url |-> file_url]

\* Two registered documents of two owners, pending, nothing indexed; d3 is not
\* registered.
Init ==
  /\ \E url1 \in {"a.txt", "blank.txt", "gone.txt", NoUrl},
        url2 \in {"b.pdf", "bad.pdf", "blob"} :
       registry = [d \in {"d1", "d2"} |->
                     IF d = "d1" THEN Row("u1", url1) ELSE Row("u2", url2)]
  /\ index = <<>>
  /\ req = [r \in Slots |-> IdleRequest]

Next ==
  \E r \in Slots :
    \/ StartProcess(r) \/ StartChat(r) \/ StartMCQ(r)
    \/ ProcGetDocument(r) \/ ProcSetProcessing(r) \/ ProcDownload(r)
    \/ ProcEmbed(r) \/ ProcInsert(r) \/ ProcSetReady(r)
    \/ ProcFailRecover(r) \/ ProcFailUnexpected(r)
    \/ ChatValidate(r) \/ RAGEmbedQuery(r) \/ RAGSearch(r) \/ RAGGenerate(r)
    \/ MCQValidate(r) \/ MCQEmbedQuery(r) \/ MCQSearch(r) \/ MCQGenerate(r)

Spec == Init /\ [][Next]_vars

----------------------------------------------------------------------------
(* SupabaseVectorStore.add_embeddings called directly, with the arguments  *)
(* a caller may pass.                                                      *)

\* Bound: a direct add_embeddings call starts only while the index holds fewer
\* records than this.
MaxStoreLen == 1

StoreChunks == { <<"alpha">>, <<"alpha", "beta">> }

\* The metadata argument: None, or a dict, which may use the keys that
\* add_embeddings itself sets.
StoreMetadata ==
  { <<>>,
    [document_type |-> "txt"],
    [document_id |-> "d2"],
    [chunk_index |-> 7, user_id |-> "u2"] }

\* One call of add_embeddings: the length check, the records, the insert.
StoreAddEmbeddings(r) ==
  /\ CanStart(r)
  /\ Len(index) < MaxStoreLen
  /\ \E u \in Users, d \in Docs, chunks \in StoreChunks, metadata \in StoreMetadata :
       \E embeddings \in EmbedDocumentsResults(chunks) :
         LET rq == Logged([NewRequest("add_embeddings", u, d) EXCEPT
                             !.chunks = chunks, !.embeddings = embeddings],
                          "add_embeddings", metadata)
             built == add_embeddings(d, u, chunks, embeddings, metadata)
         IN IF built.raised
            THEN /\ req' = [req EXCEPT ![r] = Raised(rq, built.kind, Str(built))]
                 /\ UNCHANGED index
            ELSE LET ins == Logged([rq EXCEPT !.records = built.value],
                                   "insert", built.value)
                 IN \/ /\ req' = [req EXCEPT ![r] =
                                     Raised(ins, "Exception", <<"insert call failed">>)]
                       /\ UNCHANGED index
                    \/ /\ index' = index \o built.value
                       /\ req' = [req EXCEPT ![r] = Returned(ins, Len(built.value))]
  /\ UNCHANGED registry

StoreNext == \E r \in Slots : StoreAddEmbeddings(r)

\* The registry plays no part in add_embeddings: one registry, an empty index.
StoreInit ==
  /\ registry = [d \in {"d1", "d2"} |->
                   IF d = "d1" THEN Row("u1", "a.txt") ELSE Row("u2", "b.pdf")]
  /\ index = <<>>
  /\ req = [r \in Slots |-> IdleRequest]

StoreSpec == StoreInit /\ [][StoreNext]_vars

----------------------------------------------------------------------------
(* What the properties read off a request.                                 *)

Done(rq) == rq.pc = "done"

HasOp(rq, op) == \E i \in DOMAIN rq.log : rq.log[i].op = op

CountOp(rq, op) == Cardinality({i \in DOMAIN rq.log : rq.log[i].op = op})

\* The statuses a run has written, in order.
StatusWrites(rq) ==
  LET w == SelectSeq(rq.log, LAMBDA e : e.op = "set_status")
  IN [i \in DOMAIN w |-> w[i].arg]

RaisedError(rq, error) ==
  Done(rq) /\ rq.outcome.kind = "raise" /\ rq.outcome.error = error

IsQuery(rq) == rq.kind \in {"chat", "mcq"}

\* A process_document run whose registry lookup found the document.
ProcFound(rq) ==
  /\ rq.kind = "process"
  /\ rq.pc # "get_document"
  /\ ~RaisedError(rq, "DocumentNotFoundError")

RECOVERED_ERRORS == {"DocumentDownloadError", "TextExtractionError"}

----------------------------------------------------------------------------
(* C1: a chat or quiz request for a registered document of another owner   *)
(* ends in AuthorizationError, never DocumentNotFoundError; a request for  *)
(* a document that is not registered ends in DocumentNotFoundError.        *)
C1_OwnershipGate ==
  \A r \in Slots :
    LET rq == req[r]
    IN IsQuery(rq) /\ Done(rq) =>
         /\ rq.document_id \notin DOMAIN registry =>
              RaisedError(rq, "DocumentNotFoundError")
         /\ ( /\ rq.document_id \in DOMAIN registry
              /\ registry[rq.document_id].user_id # rq.user_id ) =>
              RaisedError(rq, "AuthorizationError")

C1_Witness ==
  \E r \in Slots :
    /\ req[r].kind = "chat" /\ Done(req[r])
    /\ req[r].document_id \in DOMAIN registry
    /\ registry[req[r].document_id].user_id # req[r].user_id
    /\ RaisedError(req[r], "AuthorizationError")

(* C2: a chat or quiz request that ends in DocumentNotFoundError or        *)
(* AuthorizationError has made no embedding call, no index search and no   *)
(* model call; in every request the registry lookup precedes all of them.  *)
C2_GateBeforeWork ==
  \A r \in Slots :
    LET rq == req[r]
        work == {"embed_query", "search", "llm"}
    IN IsQuery(rq) =>
         /\ ( \/ RaisedError(rq, "DocumentNotFoundError")
              \/ RaisedError(rq, "AuthorizationError") ) =>
              \A i \in DOMAIN rq.log : rq.log[i].op \notin work
         /\ \A j \in DOMAIN rq.log :
              rq.log[j].op \in work => j > 1 /\ rq.log[1].op = "registry.select"

C2_Witness ==
  \E r \in Slots :
    /\ req[r].kind = "mcq"
    /\ RaisedError(req[r], "DocumentNotFoundError")
    /\ Len(req[r].log) = 1

(* C3: when retrieval, after the threshold filter, returns nothing, the    *)
(* model is not called and the request returns: for chat the fixed         *)
(* no-context sentence, no sources, has_context false; for a quiz no       *)
(* questions, has_context false.                                           *)
C3_NoContext ==
  \A r \in Slots :
    LET rq == req[r]
    IN IsQuery(rq) /\ rq.retrieved /\ rq.search_results = <<>> =>
         /\ Done(rq)
         /\ ~HasOp(rq, "llm")
         /\ rq.outcome.kind = "return"
         /\ rq.chain.has_context = FALSE
         /\ rq.kind = "chat" =>
              /\ rq.outcome.value.answer =
                   "I don't have enough information in the document to answer this question."
              /\ rq.outcome.value.sources = <<>>
              /\ rq.outcome.value.has_context = FALSE
         /\ rq.kind = "mcq" =>
              /\ rq.outcome.value.questions = <<>>
              /\ rq.outcome.value.generated_count = 0

\* An ingested document whose chunks all fall below the threshold for the query.
C3_Witness ==
  \E r \in Slots :
    /\ req[r].kind = "chat" /\ req[r].retrieved
    /\ req[r].raw # <<>> /\ req[r].search_results = <<>>
    /\ Done(req[r])

\* `res` holds the elements of `raw` of similarity >= 0.3, and only those, in
\* the order of `raw`.
FilteredExactly(raw, res) ==
  LET kept == {i \in DOMAIN raw : raw[i].similarity >= 30}
  IN /\ Len(res) = Cardinality(kept)
     /\ \A i \in kept : res[Cardinality({j \in kept : j <= i})] = raw[i]

(* C4: retrieve returns exactly the search results of similarity >= 0.3,   *)
(* in the order the index returned them: 0.29 is left out, 0.30 is kept.   *)
C4_ThresholdFilter ==
  \A r \in Slots :
    IsQuery(req[r]) /\ req[r].retrieved =>
      FilteredExactly(req[r].raw, req[r].search_results)

C4_Witness ==
  \E r \in Slots :
    /\ req[r].kind = "chat" /\ req[r].retrieved
    /\ \E i, j \in DOMAIN req[r].raw :
         /\ req[r].raw[i].similarity = 30
         /\ req[r].raw[j].similarity = 29
    /\ Len(req[r].search_results) = 1

(* C5: every result of a retrieval scoped to document A, and every source  *)
(* of the response, carries metadata document_id = A, and every block of   *)
(* the prompt is the content of a record of A, whatever other documents    *)
(* hold.                                                                   *)
C5_DocumentIsolation ==
  \A r \in Slots :
    LET rq == req[r]
    IN IsQuery(rq) =>
         /\ \A i \in DOMAIN rq.raw : rq.raw[i].metadata.document_id = rq.document_id
         /\ \A i \in DOMAIN rq.search_results :
              rq.search_results[i].metadata.document_id = rq.document_id
         /\ \A i \in DOMAIN rq.context :
              \E k \in DOMAIN index :
                /\ index[k].document_id = rq.document_id
                /\ index[k].content = rq.context[i].content
         /\ rq.kind = "chat" /\ Done(rq) /\ rq.outcome.kind = "return" =>
              \A i \in DOMAIN rq.outcome.value.sources :
                rq.outcome.value.sources[i].metadata.document_id = rq.document_id

\* Another document holds a chunk nearer to the query than any returned one.
C5_Witness ==
  \E r \in Slots :
    LET rq == req[r]
    IN /\ rq.kind = "chat" /\ Done(rq) /\ rq.outcome.kind = "return"
       /\ rq.outcome.value.sources # <<>>
       /\ \E k \in DOMAIN index :
            /\ index[k].document_id # rq.document_id
            /\ \A i \in DOMAIN rq.raw :
                 CosineSimilarity(rq.query_embedding, index[k].embedding)
                   > rq.raw[i].similarity

(* C6: in a process_document run that found its document, processing is    *)
(* written before the download starts, one more status is written after    *)
(* it, ready or failed, and the finished run leaves the document in that   *)
(* status, not in processing.                                              *)
C6_StatusWrites ==
  \A r \in Slots :
    LET rq == req[r]
        w == StatusWrites(rq)
    IN ProcFound(rq) =>
         /\ \A j \in DOMAIN rq.log :
              rq.log[j].op = "download" =>
                \E i \in 1..(j - 1) :
                  rq.log[i].op = "set_status" /\ rq.log[i].arg = "processing"
         /\ Len(w) <= 2
         /\ Len(w) >= 1 => w[1] = "processing"
         /\ Len(w) = 2 => w[2] \in {"ready", "failed"}
         /\ Done(rq) =>
              /\ Len(w) = 2
              /\ registry[rq.document_id].status = w[2]

C6_Witness ==
  \E r \in Slots :
    /\ ProcFound(req[r]) /\ Done(req[r])
    /\ HasOp(req[r], "download")
    /\ StatusWrites(req[r]) = <<"processing", "ready">>

\* What the URL of the run's document leads to, were the request to get through.
ServedFailure(rq) ==
  LET url == rq.document.file_url
  IN \/ Remote(url).http # 200
     \/ ExtractDownloaded(url, Remote(url)).raised

(* C7: when the download or the extraction fails, the status becomes       *)
(* failed with the error's message, the call returns a result with status  *)
(* failed, chunks_created 0 and that message, and neither the embedder nor *)
(* the index insert has been called.                                       *)
C7_RecoveredFailure ==
  \A r \in Slots :
    LET rq == req[r]
        failedRun ==
          /\ rq.outcome.kind = "return"
          /\ rq.outcome.value.status = "failed"
          /\ rq.outcome.value.chunks_created = 0
          /\ rq.outcome.value.error_message = <<rq.error.msg>>
          /\ registry[rq.document_id].status = "failed"
          /\ registry[rq.document_id].error_message = <<rq.error.msg>>
    IN /\ ( /\ rq.kind = "process"
            /\ rq.error.raised
            /\ rq.error.kind \in RECOVERED_ERRORS ) =>
              /\ ~HasOp(rq, "embed_documents")
              /\ ~HasOp(rq, "insert")
              /\ rq.pc \in {"fail_recover", "done"}
              /\ Done(rq) => failedRun
       /\ ( /\ ProcFound(rq) /\ Done(rq)
            /\ HasOp(rq, "download")
            /\ ServedFailure(rq) ) =>
              rq.error.kind \in RECOVERED_ERRORS /\ failedRun

C7_Witness ==
  \E r \in Slots :
    /\ req[r].kind = "process" /\ Done(req[r])
    /\ req[r].error.kind = "TextExtractionError"
    /\ req[r].outcome.kind = "return"
    /\ req[r].outcome.value.status = "failed"

(* C8: when extraction succeeds and chunking yields no chunk, the run ends *)
(* with status ready and chunks_created 0, and neither the embedder nor    *)
(* the index insert is called.                                             *)
C8_EmptyDocument ==
  \A r \in Slots :
    LET rq == req[r]
    IN ( /\ rq.kind = "process"
         /\ HasOp(rq, "download")
         /\ ~rq.error.raised
         /\ rq.chunks = <<>> ) =>
           /\ rq.pc \in {"set_ready", "done"}
           /\ ~HasOp(rq, "embed_documents")
           /\ ~HasOp(rq, "insert")
           /\ Done(rq) =>
                /\ rq.outcome.kind = "return"
                /\ rq.outcome.value.status = "ready"
                /\ rq.outcome.value.chunks_created = 0
                /\ registry[rq.document_id].status = "ready"
                /\ get_document_embedding_count(index, rq.document_id) = rq.count0

C8_Witness ==
  \E r \in Slots :
    /\ req[r].kind = "process" /\ Done(req[r])
    /\ HasOp(req[r], "download")
    /\ ~req[r].error.raised
    /\ req[r].chunks = <<>>
    /\ IsBlank(req[r].extracted.content) /\ req[r].extracted.content # <<>>
    /\ ~HasOp(req[r], "embed_documents")
    /\ req[r].outcome.kind = "return"
    /\ req[r].outcome.value.status = "ready"

(* C9: when any other error occurs after processing was written (the       *)
(* embedding call fails, the insert fails, chunks and vectors differ in    *)
(* number, the document has no file URL), failed is written to the         *)
(* registry and then DocumentProcessingError is raised; nothing is         *)
(* returned.                                                               *)
C9_UnexpectedFailure ==
  \A r \in Slots :
    LET rq == req[r]
        w == StatusWrites(rq)
        failedAndRaised ==
          /\ rq.outcome.kind = "raise"
          /\ rq.outcome.error = "DocumentProcessingError"
          /\ rq.log[Len(rq.log)].op = "set_status"
          /\ rq.log[Len(rq.log)].arg = "failed"
          /\ registry[rq.document_id].status = "failed"
    IN /\ ( /\ rq.kind = "process"
            /\ rq.error.raised
            /\ rq.error.kind \notin RECOVERED_ERRORS ) =>
              /\ w # <<>> /\ w[1] = "processing"
              /\ rq.pc \in {"fail_unexpected", "done"}
              /\ Done(rq) => failedAndRaised
       /\ ( /\ ProcFound(rq) /\ Done(rq)
            /\ \/ rq.document.file_url = NoUrl
               \/ Len(rq.embeddings) # Len(rq.chunks) ) => failedAndRaised

C9_Witness ==
  \E r \in Slots :
    /\ req[r].kind = "process" /\ Done(req[r])
    /\ req[r].error.kind = "ValueError"
    /\ RaisedError(req[r], "DocumentProcessingError")

\* The insert calls a run has made: the record batch of each.
Inserts(rq) ==
  LET e == SelectSeq(rq.log, LAMBDA x : x.op = "insert")
  IN [i \in DOMAIN e |-> e[i].arg]

ReadyRun(rq) ==
  /\ rq.kind = "process" /\ Done(rq)
  /\ rq.outcome.kind = "return"
  /\ rq.outcome.value.status = "ready"

\* One insert of N records, record i holding chunk i and vector i of N vectors.
OneInsertOf(rq, n) ==
  /\ Len(Inserts(rq)) = 1
  /\ Len(Inserts(rq)[1]) = n
  /\ Len(rq.chunks) = n
  /\ Len(rq.embeddings) = n
  /\ \A i \in 1..n :
       /\ Inserts(rq)[1][i].content = rq.chunks[i]
       /\ Inserts(rq)[1][i].embedding = rq.embeddings[i]
       /\ Inserts(rq)[1][i].document_id = rq.document_id

\* C10 as claimed: every run that ends ready with chunks_created = N has made
\* exactly one insert, of N records.
C10_AsClaimed ==
  \A r \in Slots :
    ReadyRun(req[r]) => OneInsertOf(req[r], req[r].outcome.value.chunks_created)

(* C10, amended: a run that ends ready with chunks_created = N >= 1 has    *)
(* made exactly one insert, of N records, record i built from chunk i and  *)
(* vector i of N vectors; with N = 0 it has made no insert; either way the *)
(* document's index region has grown by exactly chunks_created records.    *)
C10_InsertMatchesChunks ==
  \A r \in Slots :
    LET rq == req[r]
        n == rq.outcome.value.chunks_created
    IN ReadyRun(rq) =>
         /\ n >= 1 => OneInsertOf(rq, n)
         /\ n = 0 => Inserts(rq) = <<>>
         /\ get_document_embedding_count(index, rq.document_id) = rq.count0 + n

C10_Witness ==
  \E r \in Slots :
    /\ ReadyRun(req[r])
    /\ req[r].outcome.value.chunks_created = 2
    /\ req[r].count0 = 2
    /\ get_document_embedding_count(index, req[r].document_id) = 4

(* C11: add_embeddings given chunk and vector lists of different lengths  *)
(* fails with ValueError (the dimension-mismatch error) and makes no       *)
(* insert, so the index holds what it held before the call; an insert is   *)
(* only ever made with as many vectors as chunks.                          *)
C11_LengthMismatch ==
  \A r \in Slots :
    LET rq == req[r]
    IN rq.kind = "process" =>
         /\ ( /\ HasOp(rq, "embed_documents")
              /\ rq.pc \notin {"embed", "get_document", "set_processing", "download"}
              /\ ~(rq.error.raised /\ rq.error.kind = "Exception" /\ ~HasOp(rq, "insert"))
              /\ Len(rq.embeddings) # Len(rq.chunks) ) =>
                /\ rq.error.raised /\ rq.error.kind = "ValueError"
                /\ ~HasOp(rq, "insert")
                /\ get_document_embedding_count(index, rq.document_id) = rq.count0
         /\ HasOp(rq, "insert") => Len(rq.embeddings) = Len(rq.chunks)

C11_Witness ==
  \E r \in Slots :
    /\ req[r].kind = "process" /\ Done(req[r])
    /\ Len(req[r].chunks) = 2 /\ Len(req[r].embeddings) = 1
    /\ req[r].error.kind = "ValueError"
    /\ ~HasOp(req[r], "insert")
    /\ Len(index) = 0

(* C12: every record add_embeddings inserts carries in its metadata the    *)
(* record's position as chunk_index and the document_id and user_id        *)
(* arguments, whatever metadata map the caller supplied.                   *)
C12_AsClaimed ==
  \A r \in Slots :
    LET rq == req[r]
    IN rq.kind = "add_embeddings" /\ Done(rq) /\ rq.outcome.kind = "return" =>
         \A i \in DOMAIN rq.records :
           /\ rq.records[i].metadata.chunk_index = i - 1
           /\ rq.records[i].metadata.document_id = rq.document_id
           /\ rq.records[i].metadata.user_id = rq.user_id

\* A quiz request whose model call returned `output`.
Generated(rq) == rq.kind = "mcq" /\ Done(rq) /\ rq.output # <<>>

\* The output is one JSON object, possibly inside prose, and nothing else in
\* braces: the position of its body.
ObjectAt(output) ==
  {i \in DOMAIN output :
     /\ i > 1 /\ i < Len(output)
     /\ output[i - 1] = "{" /\ output[i + 1] = "}"
     /\ \A j \in DOMAIN output : output[j] \in {"{", "}"} => j \in {i - 1, i + 1}}

\* The candidates of the output's questions array, when it has one.
CandidatesOf(output) ==
  LET i == CHOOSE i \in ObjectAt(output) : TRUE
  IN IF ObjectAt(output) # {} /\ IsJsonBody(output[i])
        /\ "questions" \in DOMAIN JsonBody(output[i])
     THEN Some(JsonBody(output[i]).questions)
     ELSE None

\* The three explicit checks: a missing field, not four options, an integer
\* index outside 0..3.
FailsExplicitCheck(q) ==
  \/ \E k \in {"question", "options", "correct_answer_index", "explanation"} :
       k \notin DOMAIN q
  \/ Len(q.options) # 4
  \/ q.correct_answer_index.type = "int" /\ q.correct_answer_index.v \notin 0..3

\* A well-formed question: the four fields, non-empty texts, four non-blank
\* options, an integer index in 0..3.
WellFormed(q) ==
  /\ ~FailsExplicitCheck(q)
  /\ q.question # "" /\ q.explanation # ""
  /\ \A i \in DOMAIN q.options : q.options[i] \notin {"", " "}
  /\ q.correct_answer_index.type = "int"

\* The request returned the well-formed candidates, in their order.
ReturnedWellFormed(rq, candidates) ==
  /\ rq.outcome.kind = "return"
  /\ rq.outcome.value.questions = SelectSeq(candidates, WellFormed)
  /\ rq.outcome.value.generated_count = Len(SelectSeq(candidates, WellFormed))

(* C13: when the output holds a JSON object with a questions array whose   *)
(* candidates are each well-formed or rejected by one of the three         *)
(* explicit checks, the rejected ones are dropped and the well-formed ones *)
(* are returned in their order; when all are rejected the request returns  *)
(* an empty list with generated_count 0.                                   *)
C13_DropsRejected ==
  \A r \in Slots :
    LET rq == req[r]
        c == CandidatesOf(rq.output)
    IN ( /\ Generated(rq)
         /\ c # None
         /\ \A i \in DOMAIN c[1] : FailsExplicitCheck(c[1][i]) \/ WellFormed(c[1][i]) ) =>
           ReturnedWellFormed(rq, c[1])

C13_Witness ==
  \E r \in Slots :
    /\ Generated(req[r])
    /\ req[r].output = <<"prose", "{", "body_mixed", "}", "prose">>
    /\ req[r].outcome.kind = "return"
    /\ req[r].outcome.value.questions = <<GoodQuestion, GoodQuestion2>>

(* C14: every malformed candidate is dropped and the well-formed           *)
(* candidates of the same output are returned, also when the malformation  *)
(* is a blank option, an empty question or explanation, or a non-integer   *)
(* index.                                                                  *)
C14_AsClaimed ==
  \A r \in Slots :
    LET rq == req[r]
        c == CandidatesOf(rq.output)
    IN Generated(rq) /\ c # None => ReturnedWellFormed(rq, c[1])

(* C15: an output with no JSON object, with braces around text that is not *)
(* JSON, or with an object that has no questions key ends the request in   *)
(* MCQGenerationError; a request that returns after the model call had an  *)
(* object with a questions array in its output.                            *)
C15_UnusableOutput ==
  \A r \in Slots :
    LET rq == req[r]
        out == rq.output
    IN Generated(rq) =>
         /\ ( \/ \A i \in DOMAIN out : out[i] # "{"
              \/ \E i \in ObjectAt(out) : ~IsJsonBody(out[i])
              \/ \E i \in ObjectAt(out) :
                   IsJsonBody(out[i]) /\ "questions" \notin DOMAIN JsonBody(out[i]) ) =>
                RaisedError(rq, "MCQGenerationError")
         /\ rq.outcome.kind = "return" =>
              \E i \in DOMAIN out :
                IsJsonBody(out[i]) /\ "questions" \in DOMAIN JsonBody(out[i])

C15_Witness ==
  \E r \in Slots :
    /\ Generated(req[r])
    /\ req[r].output = <<"{", "body_no_key", "}">>
    /\ RaisedError(req[r], "MCQGenerationError")

\* The output starts with a complete object that has a questions array, and
\* text with a further closing brace follows it.
FirstObjectThenBrace(output) ==
  /\ Len(output) > 3
  /\ output[1] = "{" /\ output[3] = "}"
  /\ IsJsonBody(output[2]) /\ "questions" \in DOMAIN JsonBody(output[2])
  /\ \E j \in 4..Len(output) : output[j] = "}"

(* C16: when a complete, valid JSON object is followed by text holding     *)
(* another closing brace, the first balanced object alone is parsed and    *)
(* its valid questions are returned.                                       *)
C16_AsClaimed ==
  \A r \in Slots :
    LET rq == req[r]
    IN Generated(rq) /\ FirstObjectThenBrace(rq.output) =>
         ReturnedWellFormed(rq, JsonBody(rq.output[2]).questions)

(* C17: when retrieval returns n >= 1 results, the prompt's context holds  *)
(* the content of each as the blocks Source 1..Source n in ranked order,   *)
(* and the returned outcome has has_context true and n sources whose       *)
(* content and metadata are those of the results, in order; a returned     *)
(* outcome has has_context true exactly when its source list is not empty. *)
C17_ContextAndSources ==
  \A r \in Slots :
    LET rq == req[r]
        n == Len(rq.search_results)
    IN rq.kind = "chat" =>
         /\ rq.retrieved /\ n >= 1 =>
              /\ Len(rq.context) = n
              /\ \A i \in 1..n :
                   /\ rq.context[i].label = "Source"
                   /\ rq.context[i].number = i
                   /\ rq.context[i].content = rq.search_results[i].content
              /\ \A j \in DOMAIN rq.log :
                   rq.log[j].op = "llm" => rq.log[j].arg = rq.context
              /\ Done(rq) /\ rq.outcome.kind = "return" =>
                   /\ HasOp(rq, "llm")
                   /\ rq.outcome.value.has_context = TRUE
                   /\ Len(rq.outcome.value.sources) = n
                   /\ \A i \in 1..n :
                        /\ rq.outcome.value.sources[i].content = rq.search_results[i].content
                        /\ rq.outcome.value.sources[i].metadata = rq.search_results[i].metadata
         /\ Done(rq) /\ rq.outcome.kind = "return" =>
              (rq.outcome.value.has_context <=> rq.outcome.value.sources # <<>>)

C17_Witness ==
  \E r \in Slots :
    /\ req[r].kind = "chat" /\ Done(req[r]) /\ req[r].outcome.kind = "return"
    /\ Len(req[r].search_results) = 2
    /\ Len(req[r].outcome.value.sources) = 2
    /\ req[r].context[2].number = 2

\* A chat or quiz request that ended because its generative-model call failed.
ModelCallFailed(rq) ==
  /\ IsQuery(rq) /\ Done(rq)
  /\ rq.outcome.kind = "raise"
  /\ rq.output = <<>>
  /\ rq.log # <<>> /\ rq.log[Len(rq.log)].op = "llm"

\* The exception classes the services and chains declare; any other error is
\* a library's exception passed through unwrapped.
DECLARED_ERRORS ==
  {"DocumentNotFoundError", "AuthorizationError", "MCQGenerationError",
   "DocumentProcessingError", "DocumentDownloadError", "TextExtractionError"}

(* C18: a failed generative-model call ends the chat or quiz request in a  *)
(* generation-error kind of its own, not DocumentNotFoundError, not        *)
(* AuthorizationError and not an unwrapped library exception, after one    *)
(* model call.                                                             *)
C18_AsClaimed ==
  \A r \in Slots :
    LET rq == req[r]
    IN ModelCallFailed(rq) =>
         /\ rq.outcome.error \in
              DECLARED_ERRORS \ {"DocumentNotFoundError", "AuthorizationError"}
         /\ CountOp(rq, "llm") = 1

(* C19: a chat or quiz request makes at most one query-embedding call, one *)
(* index search and one model call; a process_document request makes at    *)
(* most one download, one batch-embedding call and one index insert.       *)
C19_NoRepeatedCall ==
  \A r \in Slots :
    \A op \in {"embed_query", "search", "llm", "download", "embed_documents", "insert"} :
      CountOp(req[r], op) <= 1

C19_Witness ==
  \E r \in Slots :
    /\ req[r].kind = "chat" /\ Done(req[r]) /\ req[r].outcome.kind = "raise"
    /\ CountOp(req[r], "embed_query") = 1
    /\ CountOp(req[r], "search") = 1
    /\ CountOp(req[r], "llm") = 1

\* The registry has no row with this id and this owner.
NotOwned(rq) ==
  \/ rq.document_id \notin DOMAIN registry
  \/ registry[rq.document_id].user_id # rq.user_id

(* C20: the lookup step of a process_document request for a document that  *)
(* is not registered, or is registered to another user, ends the request   *)
(* in DocumentNotFoundError with the registry select as its only call, and *)
(* leaves the registry and the index as they were.                         *)
C20_NotFoundChangesNothing ==
  [][ \A r \in Slots :
        ( /\ req[r].kind = "process" /\ req[r].pc = "get_document"
          /\ NotOwned(req[r])
          /\ req'[r] # req[r] ) =>
            /\ req'[r].pc = "done"
            /\ req'[r].outcome.kind = "raise"
            /\ req'[r].outcome.error = "DocumentNotFoundError"
            /\ Len(req'[r].log) = 1
            /\ req'[r].log[1].op = "registry.select"
            /\ registry' = registry
            /\ index' = index ]_vars

C20_Witness ==
  \E r \in Slots :
    /\ req[r].kind = "process"
    /\ RaisedError(req[r], "DocumentNotFoundError")
    /\ req[r].document_id \in DOMAIN registry
    /\ registry[req[r].document_id].user_id # req[r].user_id
    /\ registry[req[r].document_id].status = "pending"
    /\ Len(req[r].log) = 1

----------------------------------------------------------------------------
(* C21: the records a call has stored carry the chunk indices 0, 1, ...    *)
(* n-1 in the order of the chunks: record i holds chunk i and has          *)
(* chunk_index i - 1, so the indices have no gap and no repeat.            *)
C21_AsClaimed ==
  \A r \in Slots :
    LET rq == req[r]
    IN Done(rq) /\ rq.outcome.kind = "return" =>
       \A b \in DOMAIN Inserts(rq) :
         LET batch == Inserts(rq)[b]
         IN /\ Len(batch) = Len(rq.chunks)
            /\ [i \in DOMAIN batch |-> batch[i].metadata.chunk_index]
                 = [i \in DOMAIN batch |-> i - 1]
            /\ [i \in DOMAIN batch |-> batch[i].content] = rq.chunks

----------------------------------------------------------------------------
(* Settings validation, and TextChunker on texts of characters: the        *)
(* RecursiveCharacterTextSplitter TextChunker.__init__ configures, with    *)
(* length_function len and keep_separator at its default.                  *)

\* Bounds: the longest text chunked, and the largest chunk_size and
\* chunk_overlap a configuration is drawn with.
MaxTextLen == 4
MaxConfigValue == 3

Chars == {"a", ".", " ", "\n"}
Whitespace == {" ", "\n"}

Texts == UNION {[1..n -> Chars] : n \in 0..MaxTextLen}
ConfigValues == (0 - 1)..MaxConfigValue

validate_chunk_size(v) ==
  IF v <= 0 THEN Raise("ValueError", "CHUNK_SIZE must be positive") ELSE Return(v)

validate_chunk_overlap(v) ==
  IF v < 0 THEN Raise("ValueError", "CHUNK_OVERLAP must be non-negative") ELSE Return(v)

\* Settings(): each field through its own validator; any failure is a
\* ValidationError.
Settings(chunk_size, chunk_overlap) ==
  LET size == validate_chunk_size(chunk_size)
      overlap == validate_chunk_overlap(chunk_overlap)
  IN IF size.raised THEN Raise("ValidationError", size.msg)
     ELSE IF overlap.raised THEN Raise("ValidationError", overlap.msg)
     ELSE Return([chunk_size |-> size.value, chunk_overlap |-> overlap.value])

\* separators=["\n\n", "\n", ". ", " ", ""]
SEPARATORS == << <<"\n", "\n">>, <<"\n">>, <<".", " ">>, <<" ">>, <<>> >>

\* TextChunker.__init__: the splitter's constructor refuses an overlap larger
\* than the chunk size.
TextChunkerInit(settings) ==
  IF settings.chunk_overlap > settings.chunk_size
  THEN Raise("ValueError", "Got a larger chunk overlap than chunk size")
  ELSE Return(settings)

\* str.strip()
Strip(text) ==
  LET keep == {i \in DOMAIN text : text[i] \notin Whitespace}
  IN IF keep = {} THEN <<>>
     ELSE SubSeq(text, CHOOSE i \in keep : \A j \in keep : i <= j,
                       CHOOSE i \in keep : \A j \in keep : i >= j)

\* The position of the leftmost match of sep in text, 0 if there is none.
FindSep(text, sep) ==
  LET hits == {i \in 1..(Len(text) - Len(sep) + 1) :
                 SubSeq(text, i, i + Len(sep) - 1) = sep}
  IN IF hits = {} THEN 0 ELSE CHOOSE i \in hits : \A j \in hits : i <= j

RECURSIVE ReSplit(_, _)
\* re.split(sep, text) without the separators: the parts between the matches.
ReSplit(text, sep) ==
  LET i == FindSep(text, sep)
  IN IF i = 0 THEN <<text>>
     ELSE <<SubSeq(text, 1, i - 1)>>
            \o ReSplit(SubSeq(text, i + Len(sep), Len(text)), sep)

\* _split_text_with_regex with keep_separator: each separator stays at the
\* start of the part that follows it; the empty separator splits into
\* characters; empty parts are dropped.
split_text_with_regex(text, separator) ==
  LET splits == IF separator = <<>>
                THEN [i \in DOMAIN text |-> <<text[i]>>]
                ELSE LET p == ReSplit(text, separator)
                     IN <<p[1]>> \o [i \in 1..(Len(p) - 1) |-> separator \o p[i + 1]]
  IN SelectSeq(splits, LAMBDA s : s # <<>>)

RECURSIVE Join(_, _)
\* separator.join(docs)
Join(docs, separator) ==
  IF docs = <<>> THEN <<>>
  ELSE IF Len(docs) = 1 THEN docs[1]
  ELSE docs[1] \o separator \o Join(Tail(docs), separator)

\* _join_docs: joined and stripped, None if nothing is left.
join_docs(docs, separator) ==
  LET text == Strip(Join(docs, separator))
  IN IF text = <<>> THEN None ELSE Some(text)

SepLenIf(cond, separator) == IF cond THEN Len(separator) ELSE 0

RECURSIVE PopFront(_, _, _, _, _, _)
\* _merge_splits, the while loop: parts leave the front of current_doc until
\* what stays is within the overlap and the next part fits.
PopFront(current_doc, total, len, separator, chunk_size, chunk_overlap) ==
  IF \/ total > chunk_overlap
     \/ /\ total + len + SepLenIf(Len(current_doc) > 0, separator) > chunk_size
        /\ total > 0
  THEN PopFront(Tail(current_doc),
                total - (Len(Head(current_doc))
                         + SepLenIf(Len(current_doc) > 1, separator)),
                len, separator, chunk_size, chunk_overlap)
  ELSE [current_doc |-> current_doc, total |-> total]

RECURSIVE MergeLoop(_, _, _, _, _, _, _)
\* _merge_splits, the for loop over the parts and the final join.
MergeLoop(splits, docs, current_doc, total, separator, chunk_size, chunk_overlap) ==
  IF splits = <<>> THEN docs \o join_docs(current_doc, separator)
  ELSE LET d == Head(splits)
           len == Len(d)
           flush == /\ total + len + SepLenIf(Len(current_doc) > 0, separator)
                         > chunk_size
                    /\ Len(current_doc) > 0
           docs1 == IF flush THEN docs \o join_docs(current_doc, separator) ELSE docs
           kept == IF flush
                   THEN PopFront(current_doc, total, len, separator,
                                 chunk_size, chunk_overlap)
                   ELSE [current_doc |-> current_doc, total |-> total]
           doc1 == Append(kept.current_doc, d)
       IN MergeLoop(Tail(splits), docs1, doc1,
                    kept.total + len + SepLenIf(Len(doc1) > 1, separator),
                    separator, chunk_size, chunk_overlap)

merge_splits(splits, separator, chunk_size, chunk_overlap) ==
  MergeLoop(splits, <<>>, <<>>, 0, separator, chunk_size, chunk_overlap)

RECURSIVE split_text_rec(_, _, _, _)
RECURSIVE SplitLoop(_, _, _, _, _, _)
\* _split_text, the loop over the parts: parts shorter than chunk_size are
\* collected and merged, a longer one is split with the separators that are
\* left, or kept whole when none is left. With keep_separator the merge joins
\* with the empty string.
SplitLoop(splits, good_splits, final_chunks, new_separators, chunk_size, chunk_overlap) ==
  IF splits = <<>>
  THEN final_chunks \o merge_splits(good_splits, <<>>, chunk_size, chunk_overlap)
  ELSE LET s == Head(splits)
       IN IF Len(s) < chunk_size
          THEN SplitLoop(Tail(splits), Append(good_splits, s), final_chunks,
                         new_separators, chunk_size, chunk_overlap)
          ELSE LET merged == final_chunks
                               \o merge_splits(good_splits, <<>>, chunk_size, chunk_overlap)
                   other == IF new_separators = <<>> THEN <<s>>
                            ELSE split_text_rec(s, new_separators,
                                                chunk_size, chunk_overlap)
               IN SplitLoop(Tail(splits), <<>>, merged \o other,
                            new_separators, chunk_size, chunk_overlap)

\* _split_text: the first separator that is empty or occurs in the text.
split_text_rec(text, separators, chunk_size, chunk_overlap) ==
  LET hits == {i \in DOMAIN separators :
                 separators[i] = <<>> \/ FindSep(text, separators[i]) # 0}
      i == IF hits = {} THEN 0 ELSE CHOOSE i \in hits : \A j \in hits : i <= j
      separator == IF i = 0 THEN separators[Len(separators)] ELSE separators[i]
      new_separators == IF i = 0 \/ separator = <<>> THEN <<>>
                        ELSE SubSeq(separators, i + 1, Len(separators))
  IN SplitLoop(split_text_with_regex(text, separator), <<>>, <<>>,
               new_separators, chunk_size, chunk_overlap)

split_text(text, chunk_size, chunk_overlap) ==
  split_text_rec(text, SEPARATORS, chunk_size, chunk_overlap)

TextChunk(content, i) == [content |-> content, index |-> i]

\* Variant: the text is returned as one chunk.
chunk_text_Unsplit(text, chunk_size, chunk_overlap) ==
  IF text = <<>> \/ Strip(text) = <<>> THEN <<>>
  ELSE <<TextChunk(Strip(text), 0)>>

\* TextChunker.chunk_text
chunk_text(text, chunk_size, chunk_overlap) ==
  IF text = <<>> \/ Strip(text) = <<>> THEN <<>>
  ELSE LET chunks == split_text(text, chunk_size, chunk_overlap)
       IN [i \in DOMAIN chunks |-> TextChunk(chunks[i], i - 1)]

\* get_settings(): the configuration is read and validated.
LoadSettings(r) ==
  /\ CanStart(r)
  /\ \E chunk_size \in ConfigValues, chunk_overlap \in ConfigValues :
       LET rq == [NewRequest("settings", "", "") EXCEPT
                    !.settings = [chunk_size |-> chunk_size,
                                  chunk_overlap |-> chunk_overlap]]
           got == Settings(chunk_size, chunk_overlap)
       IN req' = [req EXCEPT ![r] =
                    IF got.raised THEN Raised(rq, got.kind, Str(got))
                    ELSE Returned(rq, got.value)]
  /\ UNCHANGED <<registry, index>>

\* TextChunker(settings), with settings that passed validation.
NewTextChunker(r) ==
  /\ CanStart(r)
  /\ req[r].kind = "settings" /\ req[r].outcome.kind = "return"
  /\ LET settings == req[r].outcome.value
         rq == [NewRequest("chunker", "", "") EXCEPT !.settings = settings]
         got == TextChunkerInit(settings)
     IN req' = [req EXCEPT ![r] =
                  IF got.raised THEN Raised(rq, got.kind, Str(got))
                  ELSE Returned(rq, got.value)]
  /\ UNCHANGED <<registry, index>>

\* chunk_text(text) on a newly constructed chunker.
ChunkText(r) ==
  /\ CanStart(r)
  /\ req[r].kind = "chunker" /\ req[r].outcome.kind = "return"
  /\ \E text \in Texts :
       LET settings == req[r].settings
           rq == [NewRequest("chunk_text", "", "") EXCEPT
                    !.settings = settings, !.text = text]
           chunks == chunk_text(text, settings.chunk_size, settings.chunk_overlap)
       IN req' = [req EXCEPT ![r] = Returned([rq EXCEPT !.chunks = chunks], chunks)]
  /\ UNCHANGED <<registry, index>>

ChunkNext == \E r \in Slots : LoadSettings(r) \/ NewTextChunker(r) \/ ChunkText(r)

ChunkSpec == StoreInit /\ [][ChunkNext]_vars

\* A chunk_text call that has returned.
Chunked(rq) == rq.kind = "chunk_text" /\ Done(rq)

(* C22: with every configuration the settings validation and the chunker's *)
(* constructor accept, every chunk chunk_text returns is at most           *)
(* chunk_size characters long, and an empty or whitespace-only text gives  *)
(* no chunks.                                                              *)
C22_ChunkLength ==
  \A r \in Slots :
    LET rq == req[r]
    IN Chunked(rq) =>
         /\ \A i \in DOMAIN rq.chunks :
              Len(rq.chunks[i].content) <= rq.settings.chunk_size
         /\ (\A i \in DOMAIN rq.text : rq.text[i] \in Whitespace) => rq.chunks = <<>>

C22_Witness ==
  \E r \in Slots :
    /\ Chunked(req[r])
    /\ req[r].settings = [chunk_size |-> 2, chunk_overlap |-> 1]
    /\ req[r].text = <<"a", "a", "a", "a">>
    /\ Len(req[r].chunks) = 3
    /\ \A i \in 1..3 : req[r].chunks[i].content = <<"a", "a">>

(* C23: every configuration that passes Settings validation has            *)
(* chunk_size > 0 and 0 <= chunk_overlap < chunk_size, and validation      *)
(* rejects a configuration whose chunk_overlap is chunk_size or more.      *)
C23_AsClaimed ==
  \A r \in Slots :
    LET rq == req[r]
    IN rq.kind = "settings" /\ Done(rq) =>
         /\ rq.outcome.kind = "return" =>
              /\ rq.outcome.value.chunk_size > 0
              /\ 0 <= rq.outcome.value.chunk_overlap
              /\ rq.outcome.value.chunk_overlap < rq.outcome.value.chunk_size
         /\ rq.settings.chunk_overlap >= rq.settings.chunk_size =>
              RaisedError(rq, "ValidationError")

----------------------------------------------------------------------------
(* Quiz requests with every allowed number of questions, against an index  *)
(* that documents have been ingested into several times.                   *)

\* Bound: a process_document run starts only while the index holds fewer
\* records than this.
MaxQuizIndexLen == 9

\* MCQRequest.num_questions: ge=1, le=20
QuizNumQuestions == 1..20

QuizStartProcess(r) ==
  /\ CanStart(r)
  /\ Len(index) < MaxQuizIndexLen
  /\ \E d \in DOMAIN registry :
       req' = [req EXCEPT ![r] =
                 [NewRequest("process", registry[d].user_id, d) EXCEPT
                    !.pc = "get_document"]]
  /\ UNCHANGED <<registry, index>>

QuizStartMCQ(r) ==
  /\ CanStart(r)
  /\ \E d \in DOMAIN registry, n \in QuizNumQuestions :
       req' = [req EXCEPT ![r] =
                 [NewRequest("mcq", registry[d].user_id, d) EXCEPT
                    !.pc = "validate", !.num_questions = n,
                    !.difficulty = "easy"]]
  /\ UNCHANGED <<registry, index>>

QuizNext ==
  \E r \in Slots :
    \/ QuizStartProcess(r) \/ QuizStartMCQ(r)
    \/ ProcGetDocument(r) \/ ProcSetProcessing(r) \/ ProcDownload(r)
    \/ ProcEmbed(r) \/ ProcInsert(r) \/ ProcSetReady(r)
    \/ ProcFailRecover(r) \/ ProcFailUnexpected(r)
    \/ MCQValidate(r) \/ MCQEmbedQuery(r) \/ MCQSearch(r) \/ MCQGenerate(r)

\* One registered document, pending, nothing indexed.
QuizInit ==
  /\ registry = [d \in {"d2"} |-> Row("u2", "b.pdf")]
  /\ index = <<>>
  /\ req = [r \in Slots |-> IdleRequest]

QuizSpec == QuizInit /\ [][QuizNext]_vars

(* C24: a quiz request asks the index for k = max(6, 2 * num_questions)    *)
(* results, for every num_questions in 1..20: 6 up to three questions and  *)
(* twice the number of questions above; what the search returns, what      *)
(* passes the threshold and the sections of the context never number more  *)
(* than k.                                                                 *)
C24_RetrievalCount ==
  \A r \in Slots :
    LET rq == req[r]
    IN rq.kind = "mcq" /\ HasOp(rq, "search") =>
         /\ rq.num_questions \in 1..20
         /\ rq.k = IF rq.num_questions <= 3 THEN 6 ELSE 2 * rq.num_questions
         /\ rq.k >= 6 /\ rq.k >= 2 * rq.num_questions
         /\ Len(rq.raw) <= rq.k
         /\ Len(rq.search_results) <= rq.k
         /\ Len(rq.context) <= rq.k

\* More records of the document pass the threshold than k: the context has
\* exactly k sections.
C24_Witness ==
  \E r \in Slots :
    /\ req[r].kind = "mcq" /\ req[r].pc = "llm"
    /\ req[r].num_questions = 4
    /\ req[r].k = 8
    /\ get_document_embedding_count(index, req[r].document_id) = 10
    /\ Len(req[r].context) = 8

----------------------------------------------------------------------------
(* C25: the status of a document in the registry only moves along          *)
(* pending -> processing -> {ready, failed}: it never goes from ready or   *)
(* failed to processing, and never from ready to failed or from failed to  *)
(* ready in one write.                                                     *)
C25_AsClaimed ==
  [][\A d \in DOMAIN registry :
       LET old == registry[d].status
           new == registry'[d].status
       IN /\ ~(old \in {READY, FAILED} /\ new = PROCESSING)
          /\ ~(old = READY /\ new = FAILED)
          /\ ~(old = FAILED /\ new = READY)]_vars

----------------------------------------------------------------------------
(* Every operation of the services: process_document, chat, quiz, and      *)
(* delete_document_embeddings, with a registry whose write of the ready    *)
(* status may fail. Requests run one at a time.                            *)

\* DocumentService.delete_document_embeddings: one delete call on the index,
\* which returns the number of records deleted, or fails.
DeleteCall(r, d) ==
  LET rq == Logged(NewRequest("delete", "", d), "delete", d)
  IN /\ \/ /\ req' = [req EXCEPT ![r] =
                          Raised(rq, "Exception", <<"delete call failed">>)]
             /\ UNCHANGED index
          \/ /\ index' = delete_document_embeddings(index, d)
             /\ req' = [req EXCEPT ![r] =
                          Returned(rq, get_document_embedding_count(index, d))]
     /\ UNCHANGED registry

DeleteEmbeddings(r) == CanStart(r) /\ \E d \in Docs : DeleteCall(r, d)

\* update_document_status(READY) raises: the registry is not changed and the
\* error goes to `except Exception`.
ProcSetReadyFails(r) ==
  /\ req[r].kind = "process" /\ req[r].pc = "set_ready"
  /\ req' = [req EXCEPT ![r] =
               [Logged(req[r], "set_status_failed", READY) EXCEPT
                  !.pc = "fail_unexpected",
                  !.error = Raise("Exception", "registry write failed")]]
  /\ UNCHANGED <<registry, index>>

OpsNext ==
  \/ Next
  \/ \E r \in Slots : DeleteEmbeddings(r) \/ ProcSetReadyFails(r)

OpsSpec == StoreInit /\ [][OpsNext]_vars

\* The step in which the request of slot r ends.
Ends(r) == req'[r] # req[r] /\ Done(req'[r])

(* C26: process_document deletes nothing, so a run that ends ready leaves  *)
(* in the document's index region what was there when it started plus its  *)
(* own chunks_created records; delete_document_embeddings empties the      *)
(* region and returns how many records it held; so a run started on a      *)
(* region the caller has emptied leaves exactly chunks_created records.    *)
C26_DeleteBeforeRerun ==
  [][\A r \in Slots :
       LET rq == req'[r]
           count == get_document_embedding_count(index', rq.document_id)
       IN /\ Ends(r) /\ ReadyRun(rq) =>
               /\ count = rq.count0 + rq.outcome.value.chunks_created
               /\ rq.count0 = 0 => count = rq.outcome.value.chunks_created
          /\ Ends(r) /\ rq.kind = "delete" /\ rq.outcome.kind = "return" =>
               /\ count = 0
               /\ rq.outcome.value
                    = get_document_embedding_count(index, rq.document_id)]_vars

\* A run on a document that was ready when the run read it and whose region
\* had been emptied since: the region holds the two records of this run.
C26_Witness ==
  \E r \in Slots :
    /\ ReadyRun(req[r])
    /\ req[r].document.status = READY
    /\ req[r].count0 = 0
    /\ req[r].outcome.value.chunks_created = 2
    /\ get_document_embedding_count(index, req[r].document_id) = 2

\* The run's insert call went through: its records are in the index.
InsertSucceeded(rq) ==
  /\ HasOp(rq, "insert")
  /\ ~(rq.error.raised /\ rq.error.msg = "insert call failed")

(* C27: a run whose last status write is failed has added no records to    *)
(* the index.                                                              *)
C27_AsClaimed ==
  \A r \in Slots :
    LET rq == req[r]
        writes == StatusWrites(rq)
    IN ( /\ rq.kind = "process" /\ Done(rq)
         /\ writes # <<>>
         /\ writes[Len(writes)] = FAILED ) => ~InsertSucceeded(rq)

(* C30: a process_document run or a delete_document_embeddings call on a   *)
(* document changes nothing of any other document, neither its registry    *)
(* row nor its index records; a chat or quiz request changes neither the   *)
(* registry nor the index.                                                 *)
C30_Frame ==
  [][\A r \in Slots :
       req'[r] # req[r] =>
         LET rq == req'[r]
         IN /\ rq.kind \in {"process", "delete"} =>
                 /\ \A b \in DOMAIN registry \ {rq.document_id} :
                      registry'[b] = registry[b]
                 /\ DOMAIN registry' = DOMAIN registry
                 /\ SelectSeq(index', LAMBDA rec : rec.document_id # rq.document_id)
                      = SelectSeq(index, LAMBDA rec : rec.document_id # rq.document_id)
            /\ rq.kind \in {"chat", "mcq"} =>
                 registry' = registry /\ index' = index]_vars

\* Both documents ingested, then one deleted: the other's two records and its
\* ready status are still there.
C30_Witness ==
  \E r \in Slots :
    /\ req[r].kind = "delete" /\ req[r].outcome.kind = "return"
    /\ req[r].outcome.value = 2
    /\ req[r].document_id = "d1"
    /\ get_document_embedding_count(index, "d1") = 0
    /\ get_document_embedding_count(index, "d2") = 2
    /\ registry["d2"].status = READY

(* C28: a quiz response never holds more questions than were asked for:    *)
(* generated_count is at most num_questions, and it is the length of the   *)
(* question list.                                                          *)
C28_AsClaimed ==
  \A r \in Slots :
    LET rq == req[r]
    IN rq.kind = "mcq" /\ Done(rq) /\ rq.outcome.kind = "return" =>
         /\ rq.outcome.value.generated_count <= rq.num_questions
         /\ rq.outcome.value.generated_count = Len(rq.outcome.value.questions)

----------------------------------------------------------------------------
(* A chat running while the document is re-ingested. Slot 1 is the caller  *)
(* that ingests the document and re-ingests it, each time with             *)
(* delete_document_embeddings and then process_document; slot 2 is a chat  *)
(* on the same document. The two slots interleave at every external call.  *)

\* The caller's delete before a re-run.
ConcDelete(r) ==
  /\ r = 1 /\ ~InFlight(r)
  /\ req[r].kind # "delete" \/ req[r].outcome.kind = "raise"
  /\ \E d \in DOMAIN registry : DeleteCall(r, d)

\* process_document: the first run, or the re-run after the delete returned.
ConcStartProcess(r) ==
  /\ r = 1 /\ ~InFlight(r)
  /\ \/ req[r].kind = "none"
     \/ req[r].kind = "delete" /\ req[r].outcome.kind = "return"
  /\ \E d \in DOMAIN registry :
       req' = [req EXCEPT ![r] =
                 [NewRequest("process", registry[d].user_id, d) EXCEPT
                    !.pc = "get_document"]]
  /\ UNCHANGED <<registry, index>>

ConcStartChat(r) ==
  /\ r = 2 /\ ~InFlight(r)
  /\ \E d \in DOMAIN registry, m \in Messages :
       req' = [req EXCEPT ![r] =
                 [NewRequest("chat", registry[d].user_id, d) EXCEPT
                    !.pc = "validate", !.message = m]]
  /\ UNCHANGED <<registry, index>>

ConcNext ==
  \E r \in Slots :
    \/ ConcDelete(r) \/ ConcStartProcess(r) \/ ConcStartChat(r)
    \/ ProcGetDocument(r) \/ ProcSetProcessing(r) \/ ProcDownload(r)
    \/ ProcEmbed(r) \/ ProcInsert(r) \/ ProcSetReady(r)
    \/ ProcFailRecover(r) \/ ProcFailUnexpected(r)
    \/ ChatValidate(r) \/ RAGEmbedQuery(r) \/ RAGSearch(r) \/ RAGGenerate(r)

ConcSpec == QuizInit /\ [][ConcNext]_vars

\* The chat ended in an error because one of its own external calls failed.
OwnCallFailed(rq) ==
  /\ rq.outcome.kind = "raise"
  /\ rq.outcome.error = "Exception"
  /\ rq.outcome.msg \in { <<"embedding call failed">>, <<"search call failed">>,
                          <<"model call failed">> }

(* C29: a chat on a document that is being re-ingested is never refused    *)
(* or failed because of the re-ingestion: whatever the registry status and *)
(* whatever part of the chunks it finds, it passes the ownership check and *)
(* ends with an answer, grounded when the search found chunks above the    *)
(* threshold and the no-context answer when it found none, unless one of   *)
(* its own external calls fails.                                           *)
C29_ChatDuringReingestion ==
  \A r \in Slots :
    LET rq == req[r]
    IN rq.kind = "chat" =>
         /\ rq.pc # "validate" => rq.document # <<>>
         /\ Done(rq) =>
              \/ OwnCallFailed(rq)
              \/ /\ rq.outcome.kind = "return"
                 /\ rq.retrieved
                 /\ rq.outcome.value.has_context = (rq.search_results # <<>>)
                 /\ rq.search_results = <<>> =>
                      rq.outcome.value.answer = NO_CONTEXT_RESPONSE

\* The chat started when the old two chunks were stored, read the status
\* processing, searched after the delete and before the insert of the re-run,
\* found nothing and gave the no-context answer.
C29_Witness ==
  /\ req[2].kind = "chat" /\ Done(req[2])
  /\ req[2].count0 = 2
  /\ req[2].document.status = PROCESSING
  /\ req[2].retrieved /\ req[2].raw = <<>>
  /\ req[2].outcome.kind = "return"
  /\ req[2].outcome.value.answer = NO_CONTEXT_RESPONSE
  /\ req[1].kind = "process" /\ req[1].pc = "insert"
  /\ req[1].document.status = READY
  /\ index = <<>>

====
